---- MODULE Spec2Model ----
(***************************************************************************)
(* Model of the Dewp ETL job (dewp/transformers/dewp_transformers.py):     *)
(* DewpETL.etl_report1 = load(transform_report1(extract())).               *)
(*                                                                         *)
(* A DataFrame is a record [columns, rows]: columns is the sequence of     *)
(* column labels, rows the sequence of rows, each row a sequence of cells  *)
(* aligned with columns.  A cell is a record [t, n, s]:                    *)
(*   t = "num": the number n;  t = "str": the text s, a sequence of        *)
(*   one-character strings;  t = "nan": a missing value (NaN).             *)
(* Only integers are modelled as numbers; text is parsed by pd.to_numeric  *)
(* as an optionally signed decimal integer.                                *)
(***************************************************************************)
EXTENDS Integers, Sequences, FiniteSets, TLC

VARIABLES
    src_args,       \* DewpETL.src_args, a DewpSourceConfig
    trg_args,       \* DewpETL.trg_args, a DewpTargetConfig
    pc,             \* position of etl_report1
    files,          \* extract: the keys listed under src_files_prefix
    frames,         \* extract: the DataFrames read so far, in read order
    data_frame,     \* etl_report1: the local data_frame
    extracted,      \* the DataFrame extract returned (input of transform_report1)
    today,          \* the value datetime.today() gave to load
    log,            \* the calls made on the two S3BucketConnectors, in order
    trg_objects,    \* the objects stored in the target bucket, in write order
    err,            \* the exception that left etl_report1, "none" if none
    ret             \* the value etl_report1 returned, "none" before it returns

vars == <<src_args, trg_args, pc, files, frames, data_frame, extracted, today,
          log, trg_objects, err, ret>>

-----------------------------------------------------------------------------
(* Bounds *)

\* total number of rows the source objects of one run hold
MaxRows == 3

-----------------------------------------------------------------------------
(* Cells and text *)

Num(k) == [t |-> "num", n |-> k, s |-> <<>>]

Str(chars) == [t |-> "str", n |-> 0, s |-> chars]

NaN == [t |-> "nan", n |-> 0, s |-> <<>>]

Digits == <<"0", "1", "2", "3", "4", "5", "6", "7", "8", "9">>

IsDigit(c) == \E i \in 1..Len(Digits) : Digits[i] = c

DigitVal(c) == (CHOOSE i \in 1..Len(Digits) : Digits[i] = c) - 1

AllDigits(chars) == Len(chars) > 0 /\ \A i \in 1..Len(chars) : IsDigit(chars[i])

RECURSIVE ParseNat(_)
ParseNat(chars) ==
    IF chars = <<>> THEN 0
    ELSE ParseNat(SubSeq(chars, 1, Len(chars) - 1)) * 10 + DigitVal(chars[Len(chars)])

\* text that pd.to_numeric / the query parser reads as a number
IsNumeral(chars) ==
    \/ AllDigits(chars)
    \/ Len(chars) > 1 /\ chars[1] = "-" /\ AllDigits(Tail(chars))

ParseInt(chars) ==
    IF chars[1] = "-" THEN 0 - ParseNat(Tail(chars)) ELSE ParseNat(chars)

\* the characters of the modelled text, in code-point order
Alphabet == <<"-", "0", "1", "2", "3", "4", "5", "6", "7", "8", "9",
              "A", "B", "P", "X", "Y", "a", "b", "c">>

CharRank(c) == CHOOSE i \in 1..Len(Alphabet) : Alphabet[i] = c

RECURSIVE TextLess(_, _)
TextLess(a, b) ==
    IF b = <<>> THEN FALSE
    ELSE IF a = <<>> THEN TRUE
    ELSE IF a[1] = b[1] THEN TextLess(Tail(a), Tail(b))
    ELSE CharRank(a[1]) < CharRank(b[1])

\* the order groupby(sort=True) puts group keys of one column in
CellLess(a, b) ==
    IF a.t = "num" /\ b.t = "num" THEN a.n < b.n
    ELSE IF a.t = "str" /\ b.t = "str" THEN TextLess(a.s, b.s)
    ELSE a.t = "num" /\ b.t = "str"

-----------------------------------------------------------------------------
(* DataFrames *)

\* pd.DataFrame()
EmptyFrame == [columns |-> <<>>, rows |-> <<>>]

\* DataFrame.empty: some axis has length 0
IsEmpty(df) == Len(df.columns) = 0 \/ Len(df.rows) = 0

HasColumn(df, c) == \E i \in 1..Len(df.columns) : df.columns[i] = c

ColIdx(df, c) == CHOOSE i \in 1..Len(df.columns) : df.columns[i] = c

\* the cell of row r under column c, NaN when the frame has no such column
CellOf(df, r, c) == IF HasColumn(df, c) THEN df.rows[r][ColIdx(df, c)] ELSE NaN

RECURSIVE UnionColumns(_, _)
UnionColumns(acc, more) ==
    IF more = <<>> THEN acc
    ELSE UnionColumns(
            IF \E i \in 1..Len(acc) : acc[i] = Head(more) THEN acc
            ELSE Append(acc, Head(more)),
            Tail(more))

RECURSIVE ConcatColumns(_)
ConcatColumns(fs) ==
    IF fs = <<>> THEN <<>>
    ELSE UnionColumns(ConcatColumns(SubSeq(fs, 1, Len(fs) - 1)), fs[Len(fs)].columns)

Reindex(df, cols) ==
    [r \in 1..Len(df.rows) |-> [j \in 1..Len(cols) |-> CellOf(df, r, cols[j])]]

RECURSIVE ConcatRows(_, _)
ConcatRows(fs, cols) ==
    IF fs = <<>> THEN <<>>
    ELSE Reindex(Head(fs), cols) \o ConcatRows(Tail(fs), cols)

RECURSIVE Reversed(_)
Reversed(fs) == IF fs = <<>> THEN <<>> ELSE Append(Reversed(Tail(fs)), Head(fs))

\* a concat that puts the frame read last first
pd_concat_last_first(fs) ==
    [columns |-> ConcatColumns(fs), rows |-> ConcatRows(Reversed(fs), ConcatColumns(fs))]

\* pd.concat(fs, ignore_index=True): outer join on the columns, rows in order
pd_concat(fs) ==
    [columns |-> ConcatColumns(fs), rows |-> ConcatRows(fs, ConcatColumns(fs))]

-----------------------------------------------------------------------------
(* transform_report1, step by step *)

Ok(df) == [error |-> "none", df |-> df]

Raise(e) == [error |-> e, df |-> EmptyFrame]

\* data_frame.loc[:, src_columns]: the listed columns, in the listed order
loc_columns(df, cols) ==
    [columns |-> cols,
     rows |-> [r \in 1..Len(df.rows) |->
                  [j \in 1..Len(cols) |-> df.rows[r][ColIdx(df, cols[j])]]]]

\* pd.to_numeric(.., errors='coerce') of one cell: text that is no number gives NaN
to_numeric(cell) ==
    IF cell.t = "str"
    THEN IF IsNumeral(cell.s) THEN Num(ParseInt(cell.s)) ELSE NaN
    ELSE cell

\* a fillna that leaves NaN in place
fillna0_omitted(cell) == cell

\* Series.fillna(0) of one cell
fillna0(cell) == IF cell.t = "nan" THEN Num(0) ELSE cell

\* lines 113-114: the value column made numeric, NaN replaced by 0
coerce_value(df, col) ==
    [columns |-> df.columns,
     rows |-> [r \in 1..Len(df.rows) |->
                  [j \in 1..Len(df.columns) |->
                      IF df.columns[j] = col
                      THEN fillna0(to_numeric(df.rows[r][j]))
                      ELSE df.rows[r][j]]]]

\* one row of the comparison  <year column> >= <threshold>; NaN compares False
year_ge(cell, threshold) == cell.t = "num" /\ cell.n >= threshold

\* the comparison of an object column raises on a text cell
YearIsText(df, col) ==
    \E r \in 1..Len(df.rows) : df.rows[r][ColIdx(df, col)].t = "str"

RECURSIVE SelectRows(_, _, _)
SelectRows(rows, j, threshold) ==
    IF rows = <<>> THEN <<>>
    ELSE IF year_ge(Head(rows)[j], threshold)
         THEN <<Head(rows)>> \o SelectRows(Tail(rows), j, threshold)
         ELSE SelectRows(Tail(rows), j, threshold)

\* data_frame.query(src_col_year + '>=' + src_col_year_filter)
query(df, col, filter) ==
    [columns |-> df.columns,
     rows |-> SelectRows(df.rows, ColIdx(df, col), ParseInt(filter))]

\* the group key of row r: the cells under the three grouping columns
KeyOf(df, r, keycols) == [k \in 1..Len(keycols) |-> df.rows[r][ColIdx(df, keycols[k])]]

HasNaN(key) == \E k \in 1..Len(key) : key[k].t = "nan"

\* groupby's default dropna=True: a row with a missing key is in no group
GroupKeys(df, keycols) ==
    {KeyOf(df, r, keycols) : r \in {q \in 1..Len(df.rows) : ~HasNaN(KeyOf(df, q, keycols))}}

\* lexicographic order of group keys (groupby's default sort=True)
KeyLess(a, b) ==
    \E k \in 1..Len(a) :
        /\ CellLess(a[k], b[k])
        /\ \A i \in 1..(k - 1) : a[i] = b[i]

RECURSIVE SortKeys(_)
SortKeys(S) ==
    IF S = {} THEN <<>>
    ELSE LET least == CHOOSE a \in S : \A b \in S \ {a} : KeyLess(a, b)
         IN  <<least>> \o SortKeys(S \ {least})

\* the values of one group; min and max skip NaN
GroupValues(df, keycols, valcol, key) ==
    {df.rows[r][ColIdx(df, valcol)].n :
        r \in {q \in 1..Len(df.rows) :
                  /\ KeyOf(df, q, keycols) = key
                  /\ df.rows[q][ColIdx(df, valcol)].t = "num"}}

agg_min(S) == IF S = {} THEN NaN ELSE Num(CHOOSE v \in S : \A w \in S : v <= w)

agg_max(S) == IF S = {} THEN NaN ELSE Num(CHOOSE v \in S : \A w \in S : v >= w)

\* groupby(keycols, as_index=False).agg(min_value=(valcol,'min'), max_value=(valcol,'max'))
groupby_agg(df, keycols, valcol) ==
    LET keys == SortKeys(GroupKeys(df, keycols))
    IN  [columns |-> keycols \o <<"min_value", "max_value">>,
         rows |-> [g \in 1..Len(keys) |->
                      keys[g] \o
                      <<agg_min(GroupValues(df, keycols, valcol, keys[g])),
                        agg_max(GroupValues(df, keycols, valcol, keys[g]))>>]]

\* a rename with the two target names exchanged
rename_exchanged(df, min_name, max_name) ==
    [columns |-> [j \in 1..Len(df.columns) |->
                     IF df.columns[j] = "min_value" THEN max_name
                     ELSE IF df.columns[j] = "max_value" THEN min_name
                     ELSE df.columns[j]],
     rows |-> df.rows]

\* data_frame.rename(columns={'min_value': .., 'max_value': ..})
rename(df, min_name, max_name) ==
    [columns |-> [j \in 1..Len(df.columns) |->
                     IF df.columns[j] = "min_value" THEN min_name
                     ELSE IF df.columns[j] = "max_value" THEN max_name
                     ELSE df.columns[j]],
     rows |-> df.rows]

GroupCols(src) ==
    <<src.src_col_year, src.src_col_industry_aggregation_knzsioc,
      src.src_col_industry_code_nzsioc>>

InCols(cols, c) == \E i \in 1..Len(cols) : cols[i] = c

\* a transform_report1 without the guard of lines 106-108
transform_report1_unguarded(df, src, trg) ==
    IF \E i \in 1..Len(src.src_columns) : ~HasColumn(df, src.src_columns[i])
    THEN Raise("KeyError")
    ELSE LET coerced == coerce_value(loc_columns(df, src.src_columns), src.src_col_value)
         IN  IF YearIsText(coerced, src.src_col_year)
             THEN Raise("TypeError")
             ELSE Ok(rename(groupby_agg(query(coerced, src.src_col_year,
                                              src.src_col_year_filter),
                                        GroupCols(src), src.src_col_value),
                            trg.trg_col_min_value, trg.trg_col_max_value))

\* transform_report1(data_frame): [error, df], error "none" when it returns df.
\* Line 111 raises KeyError for a column of src_columns the frame lacks; lines
\* 113, 116 and 119 look the value, year and grouping columns up in the
\* projected frame; line 116 compares the year column with the number
\* src_col_year_filter spells, which raises TypeError on a text cell.
transform_report1(df, src, trg) ==
    IF IsEmpty(df) THEN Ok(df)
    ELSE IF \E i \in 1..Len(src.src_columns) : ~HasColumn(df, src.src_columns[i])
    THEN Raise("KeyError")
    ELSE IF ~InCols(src.src_columns, src.src_col_value)
    THEN Raise("KeyError")
    ELSE LET projected == loc_columns(df, src.src_columns)
             coerced == coerce_value(projected, src.src_col_value)
         IN  IF ~InCols(src.src_columns, src.src_col_year)
             THEN Raise("UndefinedVariableError")
             ELSE IF YearIsText(coerced, src.src_col_year)
             THEN Raise("TypeError")
             ELSE IF \E k \in 1..3 : ~InCols(src.src_columns, GroupCols(src)[k])
             THEN Raise("KeyError")
             ELSE Ok(rename(groupby_agg(query(coerced, src.src_col_year,
                                              src.src_col_year_filter),
                                        GroupCols(src), src.src_col_value),
                            trg.trg_col_min_value, trg.trg_col_max_value))

-----------------------------------------------------------------------------
(* load: the target key *)

RECURSIVE NatStr(_)
NatStr(k) ==
    IF k < 10 THEN Digits[k + 1]
    ELSE NatStr(k \div 10) \o Digits[(k % 10) + 1]

\* a zero-padded decimal of at least two digits (%m, %d)
Pad2(k) == IF k < 10 THEN "0" \o NatStr(k) ELSE NatStr(k)

\* datetime.strftime: fmt is the pattern cut into directives and literal text;
\* the years modelled have four digits
RECURSIVE strftime(_, _)
strftime(date, fmt) ==
    IF fmt = <<>> THEN ""
    ELSE (CASE Head(fmt) = "%Y" -> NatStr(date.year)
            [] Head(fmt) = "%m" -> Pad2(date.month)
            [] Head(fmt) = "%d" -> Pad2(date.day)
            [] OTHER -> Head(fmt))
         \o strftime(date, Tail(fmt))

\* a target key without the separator
target_key_unseparated(trg, date) ==
    trg.trg_key \o strftime(date, trg.trg_key_date_format) \o trg.trg_format

\* load, lines 138-142
target_key(trg, date) ==
    trg.trg_key \o strftime(date, trg.trg_key_date_format) \o "." \o trg.trg_format

-----------------------------------------------------------------------------
(* The environment: configurations, source objects, the clock *)

ColYear == "Year"

ColAgg == "Industry_aggregation_NZSIOC"

ColCode == "Industry_code_NZSIOC"

ColValue == "Value"

ColUnits == "Units"

SourceConfig(filter) ==
    [src_columns |-> <<ColYear, ColAgg, ColCode, ColValue>>,
     src_col_year |-> ColYear,
     src_col_industry_aggregation_knzsioc |-> ColAgg,
     src_col_industry_code_nzsioc |-> ColCode,
     src_col_value |-> ColValue,
     src_col_year_filter |-> filter,
     src_files_prefix |-> "dewp_",
     src_format |-> "csv"]

TargetConfig(min_name, max_name, key, date_format, format) ==
    [trg_columns |-> <<ColYear, ColAgg, ColCode, min_name, max_name>>,
     trg_col_year |-> ColYear,
     trg_col_industry_aggregation_knzsioc |-> ColAgg,
     trg_col_industry_code_nzsioc |-> ColCode,
     trg_col_min_value |-> min_name,
     trg_col_max_value |-> max_name,
     trg_key |-> key,
     trg_key_date_format |-> date_format,
     trg_format |-> format]

\* the configurations of the modelled jobs
Jobs ==
    {[src |-> SourceConfig(<<"2", "0", "1", "5">>),
      trg |-> TargetConfig("Min_value", "Max_value", "report1_",
                           <<"%Y", "%m", "%d">>, "parquet")],
     [src |-> SourceConfig(<<"2", "0", "1", "6">>),
      trg |-> TargetConfig("Lowest", "Highest", "dewp/",
                           <<"%d", "-", "%m", "-", "%Y">>, "csv")]}

\* the values datetime.today() may give
Dates ==
    {[year |-> 2024, month |-> 3, day |-> 1],
     [year |-> 2025, month |-> 12, day |-> 25]}

NoDate == [year |-> 0, month |-> 0, day |-> 0]

\* what list_files_in_prefix may return
KeyLists == {<<>>, <<"dewp_a.csv">>, <<"dewp_a.csv", "dewp_b.csv">>}

\* the columns of a source object, and of one that lacks the industry code
FileColumns == <<ColYear, ColCode, ColAgg, ColUnits, ColValue>>

ShortColumns == <<ColValue, ColYear, ColAgg>>

FileRow(year, agg, code, value) == <<year, code, agg, Str(<<"B">>), value>>

A == Str(<<"A">>)

X == Str(<<"X">>)

\* the rows a source object may hold
RowPool ==
    {FileRow(Num(2016), A, X, Str(<<"1", "0">>)),
     FileRow(Num(2016), A, X, Str(<<"a", "b", "c">>)),
     FileRow(Num(2014), A, X, Str(<<"9", "9">>)),
     FileRow(Num(2015), A, X, Str(<<"1", "0">>)),
     FileRow(Num(2015), A, X, Str(<<"a", "b", "c">>)),
     FileRow(Num(2016), A, Str(<<"Y">>), Num(99)),
     FileRow(Num(2016), A, X, Str(<<"-", "3">>)),
     FileRow(Num(2016), A, X, NaN),
     FileRow(Num(2016), NaN, X, Str(<<"1", "0">>)),
     FileRow(NaN, A, X, Str(<<"1", "0">>)),
     FileRow(Str(<<"2", "0", "1", "6", "P">>), A, X, Str(<<"1", "0">>))}

ShortRowPool == {<<Str(<<"9", "9">>), Num(2016), A>>}

SeqsUpTo(S, k) == UNION {[1..m -> S] : m \in 0..k}

\* what read_csv_to_df may return when at most k more rows are to be read
FileContents(k) ==
    {[columns |-> FileColumns, rows |-> rs] : rs \in SeqsUpTo(RowPool, k)}
    \cup {[columns |-> ShortColumns, rows |-> rs] : rs \in SeqsUpTo(ShortRowPool, k)}

RECURSIVE RowsIn(_)
RowsIn(fs) == IF fs = <<>> THEN 0 ELSE Len(Head(fs).rows) + RowsIn(Tail(fs))

-----------------------------------------------------------------------------
(* The calls on the S3BucketConnectors *)

ListCall(prefix, ok) ==
    [op |-> "list", conn |-> "src", key |-> prefix, data |-> EmptyFrame,
     format |-> "", ok |-> ok]

ReadCall(key, ok) ==
    [op |-> "read", conn |-> "src", key |-> key, data |-> EmptyFrame,
     format |-> "", ok |-> ok]

WriteCall(df, key, format, ok) ==
    [op |-> "write", conn |-> "trg", key |-> key, data |-> df,
     format |-> format, ok |-> ok]

\* what a successful write_df_to_s3 leaves in the bucket
StoredObject(df, key, format) == [key |-> key, data |-> df, format |-> format]

-----------------------------------------------------------------------------
(* etl_report1 *)

Init ==
    /\ \E job \in Jobs : src_args = job.src /\ trg_args = job.trg
    /\ pc = "extract"
    /\ files = <<>>
    /\ frames = <<>>
    /\ data_frame = EmptyFrame
    /\ extracted = EmptyFrame
    /\ today = NoDate
    /\ log = <<>>
    /\ trg_objects = <<>>
    /\ err = "none"
    /\ ret = "none"

\* an exception leaves etl_report1: nothing catches it
Fail(e) ==
    /\ pc' = "failed"
    /\ err' = e
    /\ ret' = ret

\* extract, lines 88-90: the listing; an empty listing gives pd.DataFrame()
ExtractList ==
    /\ pc = "extract"
    /\ \E keys \in KeyLists :
        /\ files' = keys
        /\ log' = Append(log, ListCall(src_args.src_files_prefix, TRUE))
        /\ IF keys = <<>>
           THEN /\ data_frame' = EmptyFrame
                /\ extracted' = EmptyFrame
                /\ pc' = "transform"
           ELSE /\ pc' = "read"
                /\ UNCHANGED <<data_frame, extracted>>
    /\ UNCHANGED <<src_args, trg_args, frames, today, trg_objects, err, ret>>

\* extract, line 88: list_files_in_prefix raises
ExtractListFails ==
    /\ pc = "extract"
    /\ log' = Append(log, ListCall(src_args.src_files_prefix, FALSE))
    /\ Fail("ListError")
    /\ UNCHANGED <<src_args, trg_args, files, frames, data_frame, extracted,
                   today, trg_objects>>

\* extract, lines 92-95: the next read_csv_to_df; after the last one, pd.concat
ExtractRead ==
    /\ pc = "read"
    /\ \E df \in FileContents(MaxRows - RowsIn(frames)) :
        /\ frames' = Append(frames, df)
        /\ log' = Append(log, ReadCall(files[Len(frames) + 1], TRUE))
        /\ IF Len(frames) + 1 = Len(files)
           THEN /\ data_frame' = pd_concat(frames')
                /\ extracted' = pd_concat(frames')
                /\ pc' = "transform"
           ELSE /\ pc' = "read"
                /\ UNCHANGED <<data_frame, extracted>>
    /\ UNCHANGED <<src_args, trg_args, files, today, trg_objects, err, ret>>

\* an extract that swallows a failed read and goes on with the next key
ExtractReadFails_swallowed ==
    /\ pc = "read"
    /\ log' = Append(log, ReadCall(files[Len(frames) + 1], FALSE))
    /\ frames' = Append(frames, EmptyFrame)
    /\ IF Len(frames) + 1 = Len(files)
       THEN /\ data_frame' = pd_concat(frames')
            /\ extracted' = pd_concat(frames')
            /\ pc' = "transform"
       ELSE /\ pc' = "read"
            /\ UNCHANGED <<data_frame, extracted>>
    /\ UNCHANGED <<src_args, trg_args, files, today, trg_objects, err, ret>>

\* extract, line 92: read_csv_to_df raises: extract binds no data_frame, the
\* frames read so far (kept here to tell what had been read) reach nobody
ExtractReadFails ==
    /\ pc = "read"
    /\ log' = Append(log, ReadCall(files[Len(frames) + 1], FALSE))
    /\ Fail("ReadError")
    /\ UNCHANGED <<src_args, trg_args, files, frames, data_frame, extracted, today,
                   trg_objects>>

\* an etl_report1 that goes on to load whatever transform_report1 did
TransformReport1_then_load_anyway ==
    /\ pc = "transform"
    /\ LET res == transform_report1(data_frame, src_args, trg_args)
       IN  data_frame' = IF res.error = "none" THEN res.df ELSE data_frame
    /\ pc' = "load"
    /\ frames' = <<>>
    /\ UNCHANGED <<src_args, trg_args, files, extracted, today, log, trg_objects,
                   err, ret>>

\* etl_report1, line 156: data_frame = self.transform_report1(data_frame)
TransformReport1 ==
    /\ pc = "transform"
    /\ LET res == transform_report1(data_frame, src_args, trg_args)
       IN  IF res.error = "none"
           THEN /\ data_frame' = res.df
                /\ pc' = "load"
                /\ UNCHANGED <<err, ret>>
           ELSE /\ Fail(res.error)
                /\ UNCHANGED data_frame
    /\ frames' = <<>>
    /\ UNCHANGED <<src_args, trg_args, files, extracted, today, log, trg_objects>>

\* etl_report1, lines 158-159: self.load(data_frame), then return True
Load ==
    /\ pc = "load"
    /\ \E date \in Dates :
        /\ today' = date
        /\ log' = Append(log, WriteCall(data_frame, target_key(trg_args, date),
                                        trg_args.trg_format, TRUE))
        /\ trg_objects' = Append(trg_objects,
                                 StoredObject(data_frame, target_key(trg_args, date),
                                              trg_args.trg_format))
    /\ pc' = "done"
    /\ ret' = "True"
    /\ UNCHANGED <<src_args, trg_args, files, frames, data_frame, extracted, err>>

\* load, line 144: write_df_to_s3 raises; nothing is stored
LoadFails ==
    /\ pc = "load"
    /\ \E date \in Dates :
        /\ today' = date
        /\ log' = Append(log, WriteCall(data_frame, target_key(trg_args, date),
                                        trg_args.trg_format, FALSE))
    /\ Fail("WriteError")
    /\ UNCHANGED <<src_args, trg_args, files, frames, data_frame, extracted,
                   trg_objects>>

Next ==
    \/ ExtractList
    \/ ExtractListFails
    \/ ExtractRead
    \/ ExtractReadFails
    \/ TransformReport1
    \/ Load
    \/ LoadFails

Spec == Init /\ [][Next]_vars

-----------------------------------------------------------------------------
(* Vocabulary of the properties *)

Calls(op) == {i \in 1..Len(log) : log[i].op = op}

OkReads == {i \in 1..Len(log) : log[i].op = "read" /\ log[i].ok}

\* transform_report1 was called and returned / raised
TransformReturned == pc \in {"load", "done"} \/ (pc = "failed" /\ err = "WriteError")

TransformRaised == pc = "failed" /\ err \notin {"ListError", "ReadError", "WriteError"}

Threshold == ParseInt(src_args.src_col_year_filter)

\* the cells of input row r under the year, grouping and value columns
InYear(r) == CellOf(extracted, r, src_args.src_col_year)

InTriple(r) ==
    <<CellOf(extracted, r, src_args.src_col_year),
      CellOf(extracted, r, src_args.src_col_industry_aggregation_knzsioc),
      CellOf(extracted, r, src_args.src_col_industry_code_nzsioc)>>

InValue(r) == CellOf(extracted, r, src_args.src_col_value)

InRows == 1..Len(extracted.rows)

\* the input rows whose year is >= the threshold
KeptByYear == {r \in InRows : InYear(r).t = "num" /\ InYear(r).n >= Threshold}

\* the cells of output row g
OutRows == 1..Len(data_frame.rows)

OutTriple(g) ==
    <<CellOf(data_frame, g, src_args.src_col_year),
      CellOf(data_frame, g, src_args.src_col_industry_aggregation_knzsioc),
      CellOf(data_frame, g, src_args.src_col_industry_code_nzsioc)>>

OutMin(g) == CellOf(data_frame, g, trg_args.trg_col_min_value)

OutMax(g) == CellOf(data_frame, g, trg_args.trg_col_max_value)

\* a value cell that is no number
NotNumeric(cell) == cell.t = "str" /\ ~IsNumeral(cell.s)

\* the number a value cell stands for in the aggregation
Coerced(cell) ==
    IF cell.t = "num" THEN cell.n
    ELSE IF cell.t = "str" /\ IsNumeral(cell.s) THEN ParseInt(cell.s)
    ELSE 0

MissingColumn ==
    \E i \in 1..Len(src_args.src_columns) : ~HasColumn(extracted, src_args.src_columns[i])

TextYear == \E r \in InRows : InYear(r).t = "str"

ExpectedKey ==
    trg_args.trg_key \o strftime(today, trg_args.trg_key_date_format)
        \o "." \o trg_args.trg_format

-----------------------------------------------------------------------------
(* C1 *)

\* C1: the stages run in the order extract, transform_report1, load: a write is
\* the last call, made after every listed key was read, and it carries the
\* result of transform_report1 on the extracted relation; a run that returned
\* has made exactly one write and stored one object, a run that raised has
\* stored none.
C1_StagesInOrder ==
    /\ \A i \in Calls("write") :
        /\ i = Len(log)
        /\ \A j \in 1..(i - 1) : log[j].op \in {"list", "read"} /\ log[j].ok
        /\ Cardinality(OkReads) = Len(files)
        /\ transform_report1(extracted, src_args, trg_args) = Ok(log[i].data)
    /\ pc \in {"extract", "read", "transform", "load"} =>
        Calls("write") = {} /\ trg_objects = <<>>
    /\ pc \in {"transform", "load"} => Cardinality(OkReads) = Len(files)
    /\ pc = "load" => transform_report1(extracted, src_args, trg_args) = Ok(data_frame)
    /\ pc = "done" =>
        /\ ret = "True" /\ err = "none"
        /\ Cardinality(Calls("write")) = 1
        /\ Len(trg_objects) = 1
    /\ pc = "failed" => ret = "none" /\ err # "none" /\ trg_objects = <<>>

C1_Witness ==
    /\ pc = "done"
    /\ Len(files) = 2
    /\ Len(extracted.rows) = MaxRows
    /\ Len(data_frame.rows) >= 2

-----------------------------------------------------------------------------
(* C2 *)

\* C2: a failed read is the last call of the run: it is not retried, no key
\* after it is read, nothing is written; the run ends with the read error,
\* returns nothing, and extract has bound no relation.
C2_ReadFailureAborts ==
    \A i \in Calls("read") :
        ~log[i].ok =>
            /\ i = Len(log)
            /\ pc = "failed" /\ err = "ReadError" /\ ret = "none"
            /\ \A j \in 1..(i - 1) : log[j].key # log[i].key \/ log[j].op # "read"
            /\ data_frame = EmptyFrame /\ extracted = EmptyFrame
            /\ Calls("write") = {} /\ trg_objects = <<>>

C2_Witness ==
    /\ Len(log) = 3
    /\ log[2].op = "read" /\ log[2].ok
    /\ log[3].op = "read" /\ ~log[3].ok
    /\ Len(frames) = 1 /\ Len(frames[1].rows) = 2

-----------------------------------------------------------------------------
(* C3 *)

\* C3: a non-empty extracted relation that lacks a column of src_columns makes
\* transform_report1 raise the schema-mismatch error (KeyError), which ends the
\* run with nothing written; and transform_report1 raises nothing else.
C3_OnlySchemaMismatch ==
    /\ (pc \in {"load", "done", "failed"} /\ err \notin {"ListError", "ReadError"}
            /\ ~IsEmpty(extracted) /\ MissingColumn) =>
        /\ pc = "failed" /\ err = "KeyError"
        /\ Calls("write") = {} /\ trg_objects = <<>>
    /\ TransformRaised => err = "KeyError" /\ ~IsEmpty(extracted) /\ MissingColumn

-----------------------------------------------------------------------------
(* C4 *)

ZeroListed == Len(log) >= 1 /\ log[1].op = "list" /\ log[1].ok /\ files = <<>>

\* C4: when the listing is empty, extract reads nothing and returns the
\* relation without columns, transform_report1 returns it unchanged, and load
\* makes one write of it under the computed key.
C4_EmptyListing ==
    ZeroListed =>
        /\ Calls("read") = {}
        /\ extracted = EmptyFrame /\ data_frame = EmptyFrame
        /\ pc \in {"transform", "load", "done", "failed"}
        /\ pc = "failed" => err = "WriteError"
        /\ pc \in {"done", "failed"} =>
            /\ Calls("write") = {2}
            /\ log[2].data = EmptyFrame
            /\ log[2].key = ExpectedKey
        /\ pc = "done" =>
            trg_objects = <<[key |-> ExpectedKey, data |-> EmptyFrame,
                             format |-> trg_args.trg_format]>>

C4_Witness ==
    /\ ZeroListed
    /\ pc = "done"
    /\ Len(trg_objects) = 1 /\ trg_objects[1].data.columns = <<>>

-----------------------------------------------------------------------------
(* C5 *)

\* C5: for a non-empty input the output has exactly one row for each distinct
\* (year, aggregation key, code key) triple among the rows the year filter
\* keeps, a triple with a missing key included: none missing, none twice,
\* none that was not there.
C5_OneRowPerTriple ==
    (TransformReturned /\ ~IsEmpty(extracted)) =>
        /\ {OutTriple(g) : g \in OutRows} = {InTriple(r) : r \in KeptByYear}
        /\ Len(data_frame.rows) = Cardinality({InTriple(r) : r \in KeptByYear})

-----------------------------------------------------------------------------
(* C6 *)

InRow(r) == InTriple(r) \o <<InValue(r)>>

\* the three source rows of the end-to-end scenario, threshold 2015
ScenarioInput ==
    /\ Threshold = 2015
    /\ Len(extracted.rows) = 3
    /\ InRow(1) = <<Num(2016), A, X, Str(<<"1", "0">>)>>
    /\ InRow(2) = <<Num(2016), A, X, Str(<<"a", "b", "c">>)>>
    /\ InRow(3) = <<Num(2014), A, X, Str(<<"9", "9">>)>>

-----------------------------------------------------------------------------
(* C7 *)

\* C7: the year filter keeps a row iff its year is >= the threshold: every
\* output group has a year >= the threshold, and every input row with a year
\* >= the threshold is in some output group.
C7_YearFilter ==
    (TransformReturned /\ ~IsEmpty(extracted)) =>
        /\ \A g \in OutRows :
            /\ OutTriple(g)[1].t = "num" /\ OutTriple(g)[1].n >= Threshold
            /\ \E r \in KeptByYear : InTriple(r) = OutTriple(g)
        /\ \A r \in KeptByYear : \E g \in OutRows : OutTriple(g) = InTriple(r)

-----------------------------------------------------------------------------
(* C8 *)

GroupMembers(g) == {r \in KeptByYear : InTriple(r) = OutTriple(g)}

\* C8: in every output row the column trg_col_min_value is the least and the
\* column trg_col_max_value the greatest of the coerced values of the kept
\* input rows of the row's group, so min <= max.
C8_MinMax ==
    (TransformReturned /\ ~IsEmpty(extracted)) =>
        \A g \in OutRows :
            LET values == {Coerced(InValue(r)) : r \in GroupMembers(g)}
            IN  /\ values # {}
                /\ OutMin(g).t = "num" /\ OutMax(g).t = "num"
                /\ OutMin(g).n \in values /\ \A v \in values : OutMin(g).n <= v
                /\ OutMax(g).n \in values /\ \A v \in values : OutMax(g).n >= v
                /\ OutMin(g).n <= OutMax(g).n

C8_Witness ==
    /\ pc = "done"
    /\ Len(data_frame.rows) = 2
    /\ OutMin(1).n < OutMax(1).n
    /\ Cardinality(GroupMembers(1)) = 2

-----------------------------------------------------------------------------
(* C9 *)

ScenarioClock == today = [year |-> 2024, month |-> 3, day |-> 1]

\* C9: load makes exactly one write, on the target connector, under the key
\* trg_key + strftime(today, trg_key_date_format) + "." + trg_format, of the
\* relation it was given and with trg_format; when the write succeeds True is
\* returned and the object is stored, when it fails the error leaves instead.
\* With trg_key report1_, pattern %Y%m%d, format parquet and the clock at
\* 2024-03-01 the key is report1_20240301.parquet.
C9_LoadWritesOnce ==
    /\ \A i \in Calls("write") :
        /\ log[i].conn = "trg"
        /\ log[i].key = ExpectedKey
        /\ (trg_args.trg_key = "report1_" /\ ScenarioClock) =>
                log[i].key = "report1_20240301.parquet"
        /\ log[i].data = data_frame
        /\ log[i].format = trg_args.trg_format
        /\ log[i].ok =>
            /\ pc = "done" /\ ret = "True" /\ err = "none"
            /\ trg_objects = <<[key |-> ExpectedKey, data |-> data_frame,
                                format |-> trg_args.trg_format]>>
        /\ ~log[i].ok =>
            pc = "failed" /\ err = "WriteError" /\ ret = "none" /\ trg_objects = <<>>
    /\ (pc = "done" \/ err = "WriteError") => Cardinality(Calls("write")) = 1
    /\ pc \notin {"done", "failed"} => Calls("write") = {}

C9_Witness ==
    /\ pc = "done"
    /\ ScenarioClock
    /\ Len(data_frame.rows) >= 1
    /\ trg_objects[1].key = "report1_20240301.parquet"

-----------------------------------------------------------------------------
(* C10 *)

\* the number of rows of the frames before frame f
RowsBefore(f) == RowsIn(SubSeq(frames, 1, f - 1))

\* C10: with a non-empty listing, extract lists the prefix once, then reads
\* the listed keys one by one in list order on the source connector and
\* writes nothing; the relation it returns holds the rows of the relations
\* read, file after file and in each file's order.
C10_ExtractReadsInOrder ==
    (files # <<>>) =>
        /\ Calls("list") = {1} /\ log[1].conn = "src"
        /\ log[1].key = src_args.src_files_prefix
        /\ \A i \in Calls("read") :
            /\ i >= 2 /\ i - 1 <= Len(files)
            /\ log[i].key = files[i - 1] /\ log[i].conn = "src"
        /\ pc = "read" =>
            /\ Calls("read") = 2..Len(log) /\ Calls("write") = {}
            /\ Len(frames) = Len(log) - 1 /\ Len(frames) < Len(files)
        /\ pc = "transform" =>
            /\ Calls("read") = 2..(Len(files) + 1)
            /\ Len(log) = Len(files) + 1
            /\ Len(frames) = Len(files)
            /\ extracted = data_frame
            /\ Len(data_frame.rows) = RowsIn(frames)
            /\ \A f \in 1..Len(frames) : \A r \in 1..Len(frames[f].rows) :
                \A j \in 1..Len(frames[f].columns) :
                    CellOf(data_frame, RowsBefore(f) + r, frames[f].columns[j])
                        = frames[f].rows[r][j]

C10_Witness ==
    /\ pc = "transform"
    /\ Len(frames) = 2
    /\ Len(frames[1].rows) = 2 /\ frames[1].rows[1] # frames[1].rows[2]
    /\ Len(frames[2].rows) = 1 /\ frames[2].rows[1] # frames[1].rows[1]
    /\ frames[2].rows[1] # frames[1].rows[2]

====
